---- MODULE Spec2Model ----
(***************************************************************************)
(* A state-machine model of the robots.txt change monitor (app/main.py).   *)
(*                                                                         *)
(* One process run is main(): load the site list, RunChecks.check_all()    *)
(* over every site (RobotsCheck + Report per site), then the finally       *)
(* block.  The per-site data directory survives from one run to the next;  *)
(* everything else is process state and starts afresh with NextRun.        *)
(* The site list is input: its length is drawn when the run starts and     *)
(* each row when the loop of check_all reaches it.                         *)
(*                                                                         *)
(* Strings are sequences of one-character strings so that the slicing,     *)
(* strip(), lower() and newline translation of the code are computed, not  *)
(* assumed.  File access follows POSIX text mode with a UTF-8 locale:      *)
(* writing stores the characters as given, reading translates "\r\n"       *)
(* and "\r" to "\n" (universal newlines).                                  *)
(***************************************************************************)
EXTENDS Integers, Sequences, FiniteSets, TLC

VARIABLES
    pc,           \* position in main() / check_all() / check_site()
    run,          \* number of the current process run (1..MaxRuns)
    nsites,       \* len(self.sites) of the current run
    idx,          \* sites of the list already processed by check_all's loop
    site,         \* site_attributes of the check_site call in progress: <<url, name, email>>
    fs,           \* the data directory: per site directory, its files
    check,        \* the RobotsCheck instance of the site being processed
    attempt,      \* download_robotstxt's loop variable
    requests,     \* requests.get calls of the current download_robotstxt call
    sleeps,       \* time.sleep(wait) calls of the current download_robotstxt call
    resp,         \* outcome of the latest requests.get call of the current site
    extraction,   \* the text download_robotstxt returned (None before)
    counts,       \* RunChecks.no_change / change / first_run / error
    report,       \* class of the Report object built by the latest check_site call
    caught,       \* the except clause ran in the latest check_site call
    site_emails,  \* emails.site_emails
    sent,         \* number of emails.send_emails(site_emails) calls this run
    summary,      \* the counts written in the summary line (NoSummary before)
    admin_email,  \* emails.admin_email
    lastFetch,    \* per site URL, the text of its latest successful fetch
    prevFetch,    \* lastFetch of the current site as it was before this check
    pre,          \* fs as it was when the check_site call in progress began
    made,         \* files the latest create_reports call added under snapshots/
    emails_enabled, \* config.EMAILS_ENABLED as main() read it ("unread" before)
    admin_sent,   \* number of emails.send_emails(admin_email) calls this run
    main_log,     \* lines of the main log this run: start, the fatal error, END OF RUN
    wrote,        \* log lines and error text the latest check_site call produced
    csv_file,     \* rows csv.reader yields for the file given to sites_from_file
    data,         \* the list sites_from_file built
    row_errors    \* row numbers sites_from_file logged as not extractable

vars == <<pc, run, nsites, idx, site, fs, check, attempt, requests, sleeps, resp,
          extraction, counts, report, caught, site_emails, sent, summary, admin_email,
          lastFetch, prevFetch, pre, made, emails_enabled, admin_sent, main_log,
          wrote, csv_file, data, row_errors>>

\* the state only sites_from_file touches
csvVars == <<csv_file, data, row_errors>>

\* the state only main() touches
mainVars == <<emails_enabled, admin_sent, main_log>>

\* ---------------------------------------------------------------- bounds
MaxRuns == 2
MaxSites == 2

\* download_robotstxt(self, max_attempts=5, wait=120)
max_attempts == 5

\* ------------------------------------------------------- Python strings
None == <<"<None>">>

SP == " "
CR == "CR"
LF == "LF"

Min(a, b) == IF a < b THEN a ELSE b

\* s[:n]
Prefix(s, n) == SubSeq(s, 1, Min(n, Len(s)))

\* s[lo:-1]
SliceToLast(s, lo) == IF lo + 1 <= Len(s) - 1 THEN SubSeq(s, lo + 1, Len(s) - 1) ELSE <<>>

\* str.lower() on the characters the site list uses
LowerChar(c) ==
    CASE c = "H" -> "h"
      [] c = "T" -> "t"
      [] c = "P" -> "p"
      [] c = "S" -> "s"
      [] c = "A" -> "a"
      [] OTHER -> c

Lower(s) == [i \in 1..Len(s) |-> LowerChar(s[i])]

RECURSIVE LStrip(_)
LStrip(s) == IF s # <<>> /\ Head(s) = SP THEN LStrip(Tail(s)) ELSE s

RECURSIVE RStrip(_)
RStrip(s) == IF s # <<>> /\ s[Len(s)] = SP THEN RStrip(SubSeq(s, 1, Len(s) - 1)) ELSE s

\* str.strip()
Strip(s) == RStrip(LStrip(s))

\* url.strip().lower() in check_site
NormUrl(u) == Lower(Strip(u))

HTTP == <<"h", "t", "t", "p">>
HTTPS == <<"h", "t", "t", "p", "s">>

\* faulty variant: the trailing-slash test is left out
InvalidUrl_PrefixOnly(u) == Prefix(u, 4) # HTTP

\* (self.url[:4] != "http") or (self.url[-1] != "/"), for a non-empty url
InvalidUrl(u) == (Prefix(u, 4) # HTTP) \/ (u[Len(u)] # "/")

\* self.url[-1] raises IndexError on the empty string
InitRaises(u) == u = <<>>

\* self.dir, relative to config.PATH + "data/"
DirOf(u) == IF Prefix(u, 5) = HTTPS THEN SliceToLast(u, 8) ELSE SliceToLast(u, 7)

\* ------------------------------------------------------------ text files
\* open(f, 'w', errors='backslashreplace').write(t): the characters as given
WriteText(t) == t

\* open(f, 'r').read(): universal newlines
RECURSIVE ReadText(_)
ReadText(b) ==
    IF b = <<>> THEN <<>>
    ELSE IF Head(b) = CR /\ Len(b) >= 2 /\ b[2] = LF THEN <<LF>> \o ReadText(Tail(Tail(b)))
    ELSE IF Head(b) = CR THEN <<LF>> \o ReadText(Tail(b))
    ELSE <<Head(b)>> \o ReadText(Tail(b))

\* ------------------------------------------------------ bounded inputs
U_https_a == <<"h", "t", "t", "p", "s", ":", "/", "/", "a", "/">>
U_http_a == <<"h", "t", "t", "p", ":", "/", "/", "a", "/">>
U_noslash == <<"h", "t", "t", "p", ":", "/", "/", "a">>
U_noscheme == <<"a", "/">>
U_blank == <<SP>>
U_typo == <<"h", "t", "p", "s", ":", "/", "/", "a", "/">>

MAIL == <<"m", SP>>

Row(u) == <<u, <<"n">>, MAIL>>

Rows == { Row(U_https_a), Row(U_http_a), Row(U_noslash), Row(U_noscheme), Row(U_blank),
          Row(U_typo) }

Urls == { NormUrl(r[1]) : r \in Rows }
Dirs == { DirOf(u) : u \in Urls \ {<<>>} }

Texts == { <<"a">>, <<LF>>, <<CR>> }

NoResp == [k |-> "none", code |-> 0, text |-> <<>>]

Responses ==
    { [k |-> "timeout", code |-> 0, text |-> <<>>],
      [k |-> "conn", code |-> 0, text |-> <<>>],
      [k |-> "exc", code |-> 0, text |-> <<>>],
      [k |-> "resp", code |-> 404, text |-> <<>>] }
    \cup { [k |-> "resp", code |-> 200, text |-> t] : t \in Texts }

\* os.mkdir failing in RobotsCheck.__init__: at the site directory, or at program_files
MkdirFaults == { "none", "dir", "program_files" }

\* an I/O exception inside update_records, by the statement that raises
IoFaults == { "none", "open_old", "open_new", "open_write", "write", "read" }

\* an exception inside report.create_reports() (its print/log/email-body calls)
ReportFaults == { "none", "create_reports" }

\* ------------------------------------------------------------- values
NoErr == [kind |-> "none", code |-> 0]
Err(k) == [kind |-> k, code |-> 0]
StatusErr(c) == [kind |-> "status", code |-> c]

NoCheck ==
    [url |-> None, first_run |-> FALSE, err_message |-> NoErr, file_change |-> FALSE,
     dir |-> None, old_content |-> None, new_content |-> None]

NoSite == <<None, None, None>>

ZeroCounts == [no_change |-> 0, change |-> 0, first_run |-> 0, error |-> 0]
NoSummary == [no_change |-> -1, change |-> -1, first_run |-> -1, error |-> -1]

NoFiles == [snapshot |-> FALSE, diff |-> FALSE]
NoLog == [start |-> FALSE, fatal |-> FALSE, end_of_run |-> FALSE]

NoWrites ==
    [site_log |-> None, main_line |-> "none", line_msg |-> NoErr,
     error_line |-> NoErr, mail_msg |-> NoErr, sanitized |-> FALSE]

NoDir == [dir |-> FALSE, program_files |-> FALSE, old |-> None, new |-> None]
DataDir == [dir |-> TRUE, program_files |-> FALSE, old |-> None, new |-> None]

\* if check.err_message: (None is falsy, every message is a non-empty string)
Truthy(err) == err.kind # "none"

\* os.path.isfile(self.new_file)
IsFile(f, name) == f.dir /\ f.program_files /\ f[name] # None

\* ------------------------------------------------------------- Init
\* the state before main() has done anything
NothingRun ==
    /\ run = 1
    /\ nsites = 0
    /\ idx = 0
    /\ site = NoSite
    /\ attempt = 0
    /\ requests = 0
    /\ sleeps = 0
    /\ resp = NoResp
    /\ counts = ZeroCounts
    /\ report = "none"
    /\ caught = FALSE
    /\ site_emails = <<>>
    /\ sent = 0
    /\ summary = NoSummary
    /\ admin_email = <<>>
    /\ lastFetch = [u \in Urls |-> None]
    /\ prevFetch = None
    /\ made = NoFiles
    /\ emails_enabled = "unread"
    /\ admin_sent = 0
    /\ main_log = NoLog
    /\ wrote = NoWrites
    /\ data = <<>>
    /\ row_errors = <<>>

Init ==
    /\ pc = "main"
    /\ fs = [d \in Dirs |-> IF d = <<>> THEN DataDir ELSE NoDir]
    /\ check = NoCheck
    /\ extraction = None
    /\ pre = fs
    /\ csv_file = <<>>
    /\ NothingRun

\* ------------------------------------------------------------- main()
\* main() up to the loop of check_all: sites_from_file, RunChecks(sites),
\* the start line and reset_counts; an exception here is fatal
\* faulty variant: the fatal-error notification is not queued
FatalQueue_Dropped(q) == q

\* emails.admin_email.append(...) of main()'s except clause
FatalQueue(q) == Append(q, [kind |-> "fatal", body |-> NoSummary])

\* the except clause of main(): log_error, the notification for the administrator
ExceptMain ==
    /\ pc' = "finally"
    /\ main_log' = [main_log EXCEPT !.fatal = TRUE]
    /\ admin_email' = FatalQueue(admin_email)

\* faulty variant: check_all starts without resetting the counters
reset_counts_Skipped(cnt) == cnt

\* RunChecks.reset_counts
reset_counts(cnt) == ZeroCounts

StartRunF(fatals) ==
    /\ pc = "main"
    /\ \E fatal \in fatals :
        IF fatal
        THEN /\ ExceptMain
             /\ UNCHANGED <<counts, nsites>>
        ELSE /\ pc' = "loop"
             /\ counts' = reset_counts(counts)
             /\ nsites' \in 0..MaxSites
             /\ main_log' = [main_log EXCEPT !.start = TRUE]
             /\ UNCHANGED admin_email
    /\ UNCHANGED <<run, idx, site, fs, check, attempt, requests, sleeps, resp, extraction,
                   report, caught, site_emails, sent, summary,
                   lastFetch, prevFetch, pre, made, emails_enabled, admin_sent, wrote>>
    /\ UNCHANGED csvVars

StartRun == StartRunF(BOOLEAN)

\* ------------------------------------------------- RunChecks.check_site
\* check_site returns: its locals (the RobotsCheck instance) are gone
ReturnFromCheck ==
    /\ check' = NoCheck
    /\ attempt' = 0
    /\ requests' = 0
    /\ sleeps' = 0
    /\ extraction' = None
    /\ prevFetch' = None
    /\ site' = NoSite
    /\ resp' = NoResp

\* the except clause of check_site: logs.log_error(err_msg) adds the message to
\* the main log, and the email body carries it after replace_angle_brackets
ExceptWrites(w) ==
    [w EXCEPT !.error_line = Err("check_site"), !.mail_msg = Err("check_site"),
              !.sanitized = TRUE]

\* faulty variant: the exception is not handled in check_site and ends check_all
ExceptClause_Propagate(row, cnt, q) ==
    /\ caught' = TRUE
    /\ counts' = cnt
    /\ site_emails' = q
    /\ pc' = "finally"
    /\ idx' = idx

\* the except clause of check_site, entered with counters cnt and queue q
ExceptClause(row, cnt, q) ==
    /\ caught' = TRUE
    /\ counts' = [cnt EXCEPT !.error = @ + 1]
    /\ site_emails' = Append(q, [to |-> Strip(row[3]), kind |-> "unexpected", attach |-> <<>>])
    /\ pc' = "loop"
    /\ idx' = idx + 1

\* faulty variant: a failed os.mkdir leaves err_message unset
InitErr_IgnoreMkdir(url, mk) == IF InvalidUrl(url) THEN Err("invalid_url") ELSE NoErr

\* RobotsCheck.__init__: the error it records
InitErr(url, mk) ==
    IF InvalidUrl(url) THEN Err("invalid_url")
    ELSE IF ~fs[DirOf(url)].dir /\ mk # "none" THEN Err("directory")
    ELSE NoErr

\* RobotsCheck.__init__: the directories it leaves
InitDir(url, mk) ==
    LET f == fs[DirOf(url)] IN
    IF InvalidUrl(url) \/ f.dir THEN f
    ELSE IF mk = "dir" THEN f
    ELSE IF mk = "program_files" THEN [f EXCEPT !.dir = TRUE]
    ELSE [f EXCEPT !.dir = TRUE, !.program_files = TRUE]

\* check_site up to RobotsCheck(url)
\* faulty variant: the loop takes one step past the end of the list
LoopHasNext_OneMore(i, n) == i <= n

\* for site_attributes in self.sites: sites remain after the first i
LoopHasNext(i, n) == i < n

BeginSiteF(mkfaults) ==
    /\ pc = "loop"
    /\ LoopHasNext(idx, nsites)
    /\ \E row \in Rows :
       LET url == NormUrl(row[1])
       IN  /\ pre' = fs
           /\ report' = "none"
           /\ made' = NoFiles
           /\ IF InitRaises(url)
              THEN /\ ExceptClause(row, counts, site_emails)
                   /\ wrote' = ExceptWrites(NoWrites)
                   /\ ReturnFromCheck
                   /\ UNCHANGED fs
              ELSE /\ \E mk \in mkfaults :
                        /\ check' = [NoCheck EXCEPT !.url = url, !.dir = DirOf(url),
                                                    !.err_message = InitErr(url, mk)]
                        /\ fs' = [fs EXCEPT ![DirOf(url)] = InitDir(url, mk)]
                   /\ prevFetch' = lastFetch[url]
                   /\ wrote' = NoWrites
                   /\ caught' = FALSE
                   /\ pc' = "run_check"
                   /\ site' = row
                   /\ UNCHANGED <<counts, site_emails, idx, attempt, requests, sleeps,
                                  resp, extraction>>
    /\ UNCHANGED <<run, nsites, sent, summary, admin_email, lastFetch>>
    /\ UNCHANGED <<mainVars, csvVars>>

BeginSite == BeginSiteF(MkdirFaults)

\* run_check: the early return
RunCheck ==
    /\ pc = "run_check"
    /\ pc' = IF Truthy(check.err_message) THEN "classify" ELSE "download"
    /\ UNCHANGED <<run, nsites, idx, site, fs, check, attempt, requests, sleeps, resp,
                   extraction, counts, report, caught, site_emails, sent, summary,
                   admin_email, lastFetch, prevFetch, pre, made, wrote>>
    /\ UNCHANGED <<mainVars, csvVars>>

\* --------------------------------------------- RobotsCheck.download_robotstxt
\* faulty variant: the final attempt is taken one iteration early
Retry_OneShort(a) == a < max_attempts - 2

\* the except branches: retry after a sleep while attempts remain
Retry(a) == a < max_attempts - 1

\* faulty variant: any status code passes
StatusOk_AnyCode(code) == code # 0

\* the status test of the else branch
StatusOk(code) == code = 200

\* faulty variant: update_records runs whether or not download_robotstxt returned
AfterDownload_Always(returned) == "update"

\* run_check's try block: update_records runs only when download_robotstxt returned
AfterDownload(returned) == IF returned THEN "update" ELSE "classify"

\* faulty variant: run_check's except clause leaves err_message as it finds it
ExceptMessage_Keep(err) == err

\* run_check's except clause: an 'Unexpected error' message unless one is set
ExceptMessage(err) == IF Truthy(err) THEN err ELSE Err("unexpected")

\* faulty variant: a 200 response returns an empty body
Returned_Empty(r) == <<>>

\* return req.text
Returned(r) == r.text

\* one iteration of the for loop, with the handling run_check gives its exception
Attempt ==
    /\ pc = "download"
    /\ \E r \in Responses :
        /\ requests' = requests + 1
        /\ resp' = r
        /\ IF r.k \in {"timeout", "conn"}
           THEN IF Retry(attempt)
                THEN /\ sleeps' = sleeps + 1
                     /\ attempt' = attempt + 1
                     /\ UNCHANGED <<pc, check, extraction, lastFetch>>
                ELSE /\ check' = [check EXCEPT !.err_message = ExceptMessage(Err(r.k))]
                     /\ pc' = AfterDownload(FALSE)
                     /\ UNCHANGED <<sleeps, attempt, extraction, lastFetch>>
           ELSE IF r.k = "exc"
           THEN /\ check' = [check EXCEPT !.err_message = ExceptMessage(check.err_message)]
                /\ pc' = AfterDownload(FALSE)
                /\ UNCHANGED <<sleeps, attempt, extraction, lastFetch>>
           ELSE IF ~StatusOk(r.code)
           THEN /\ check' = [check EXCEPT !.err_message = ExceptMessage(StatusErr(r.code))]
                /\ pc' = AfterDownload(FALSE)
                /\ UNCHANGED <<sleeps, attempt, extraction, lastFetch>>
           ELSE /\ extraction' = Returned(r)
                /\ lastFetch' = [lastFetch EXCEPT ![check.url] = r.text]
                /\ pc' = AfterDownload(TRUE)
                /\ UNCHANGED <<sleeps, attempt, check>>
    /\ UNCHANGED <<run, nsites, idx, site, fs, counts, report, caught, site_emails, sent,
                   summary, admin_email, prevFetch, pre, made, wrote>>
    /\ UNCHANGED <<mainVars, csvVars>>

\* ------------------------------------------------ RobotsCheck.update_records
\* faulty variant: the if branch neither reads new_file nor writes old_file
CopyNewToOld_Skipped(f, c, io) == [f |-> f, c |-> c, raised |-> FALSE]

\* the if branch: old_file takes the content read from new_file
CopyNewToOld(f, c, io) ==
    IF io = "open_old" THEN [f |-> f, c |-> c, raised |-> TRUE]
    ELSE IF io = "open_new" THEN [f |-> [f EXCEPT !.old = <<>>], c |-> c, raised |-> TRUE]
    ELSE LET content == ReadText(f.new) IN
         [f |-> [f EXCEPT !.old = WriteText(content)],
          c |-> [c EXCEPT !.old_content = content],
          raised |-> FALSE]

\* the else branch: both files are created with mode 'x', first_run is set
CreateFiles(f, c, io) ==
    IF ~f.program_files \/ f.old # None \/ io = "open_old"
    THEN [f |-> f, c |-> c, raised |-> TRUE]
    ELSE IF io = "open_new"
    THEN [f |-> [f EXCEPT !.old = <<>>], c |-> c, raised |-> TRUE]
    ELSE [f |-> [f EXCEPT !.old = <<>>, !.new = <<>>],
          c |-> [c EXCEPT !.first_run = TRUE],
          raised |-> FALSE]

\* new_file is overwritten with the extraction and read back
WriteNew(f, c, text, io) ==
    IF io = "open_write" THEN [f |-> f, c |-> c, raised |-> TRUE]
    ELSE IF io = "write" THEN [f |-> [f EXCEPT !.new = <<>>], c |-> c, raised |-> TRUE]
    ELSE LET g == [f EXCEPT !.new = WriteText(text)] IN
         IF io = "read" THEN [f |-> g, c |-> c, raised |-> TRUE]
         ELSE [f |-> g, c |-> [c EXCEPT !.new_content = ReadText(g.new)], raised |-> FALSE]

update_records(f, c, text, io) ==
    LET first == IF IsFile(f, "new") THEN CopyNewToOld(f, c, io) ELSE CreateFiles(f, c, io) IN
    IF first.raised THEN first ELSE WriteNew(first.f, first.c, text, io)

\* check_diff
check_diff(c) == [c EXCEPT !.file_change = (c.old_content # c.new_content)]

\* run_check after the download: update_records, check_diff, the except clause
UpdateRecordsF(iofaults) ==
    /\ pc = "update"
    /\ \E io \in iofaults :
        LET r == update_records(fs[check.dir], check, extraction, io) IN
        /\ fs' = [fs EXCEPT ![check.dir] = r.f]
        /\ check' = IF r.raised THEN [r.c EXCEPT !.err_message = ExceptMessage(r.c.err_message)]
                    ELSE IF ~r.c.first_run THEN check_diff(r.c)
                    ELSE r.c
    /\ pc' = "classify"
    /\ attempt' = 0
    /\ requests' = 0
    /\ sleeps' = 0
    /\ UNCHANGED <<run, nsites, idx, site, resp, extraction, counts,
                   report, caught, site_emails, sent, summary, admin_email,
                   lastFetch, prevFetch, pre, made, wrote>>
    /\ UNCHANGED <<mainVars, csvVars>>

UpdateRecords == UpdateRecordsF(IoFaults)

\* ------------------------------------------- check_site: classify and report
\* faulty variant: first_run is tested before err_message
ReportClass_FirstRunFirst(c) ==
    IF c.first_run THEN "FirstRunReport"
    ELSE IF Truthy(c.err_message) THEN "ErrorReport"
    ELSE IF c.file_change THEN "ChangeReport"
    ELSE "NoChangeReport"

\* the if/elif chain of check_site
ReportClass(c) ==
    IF Truthy(c.err_message) THEN "ErrorReport"
    ELSE IF c.first_run THEN "FirstRunReport"
    ELSE IF c.file_change THEN "ChangeReport"
    ELSE "NoChangeReport"

\* the counter incremented beside each report class
Counted(cnt, class) ==
    CASE class = "ErrorReport" -> [cnt EXCEPT !.error = @ + 1]
      [] class = "FirstRunReport" -> [cnt EXCEPT !.first_run = @ + 1]
      [] class = "ChangeReport" -> [cnt EXCEPT !.change = @ + 1]
      [] OTHER -> [cnt EXCEPT !.no_change = @ + 1]

\* faulty variant: NoChangeReport queues an email as well
QueuedBy_Always(q, class, to) == Append(q, [to |-> to, kind |-> "error", attach |-> <<>>])

\* the email create_reports queues, by report class
QueuedBy(q, class, to) ==
    CASE class = "ErrorReport" -> Append(q, [to |-> to, kind |-> "error", attach |-> <<>>])
      [] class = "FirstRunReport" -> Append(q, [to |-> to, kind |-> "first_run", attach |-> <<>>])
      [] class = "ChangeReport" ->
            Append(q, [to |-> to, kind |-> "change",
                       attach |-> <<"old_file", "new_file", "diff_file">>])
      [] OTHER -> q

\* faulty variant: every report class writes a snapshot
FilesOf_SnapshotAlways(class) == [snapshot |-> TRUE, diff |-> class = "ChangeReport"]

\* create_snapshot and create_diff_file calls of create_reports, by report class
FilesOf(class) ==
    [snapshot |-> class \in {"FirstRunReport", "ChangeReport"},
     diff |-> class = "ChangeReport"]

\* faulty variant: ErrorReport appends to the site log whatever the directory
SiteLogged_Always(class, f, dir) == TRUE

\* update_site_log is called: always, except by ErrorReport when the directory
\* is missing or is the data directory itself
SiteLogged(class, f, dir) == (class # "ErrorReport") \/ (f.dir /\ dir # <<>>)

\* faulty variant: every report class writes to the main log
MainLine_Always(class) == "error"

\* logs.update_main_log(log_content) of create_reports, by report class
MainLine(class) ==
    CASE class = "ErrorReport" -> "error"
      [] class = "FirstRunReport" -> "first_run"
      [] class = "ChangeReport" -> "change"
      [] OTHER -> "none"

\* faulty variant: the email body carries a fixed text, not the error message
MailMsg_Generic(class, err) == IF class = "ErrorReport" THEN Err("unexpected") ELSE NoErr

\* the error text formatted into email_content
MailMsg(class, err) == IF class = "ErrorReport" THEN err ELSE NoErr

\* faulty variant: the email content is used as it is
Sanitized_Never(class) == FALSE

\* emails.replace_angle_brackets(email_content) is applied
Sanitized(class) == class = "ErrorReport"

\* log lines and email text of create_reports
WritesOf(c, class, f) ==
    [site_log |-> IF SiteLogged(class, f, c.dir) THEN c.dir ELSE None,
     main_line |-> MainLine(class),
     line_msg |-> IF class = "ErrorReport" THEN c.err_message ELSE NoErr,
     error_line |-> NoErr,
     mail_msg |-> MailMsg(class, c.err_message),
     sanitized |-> Sanitized(class)]

\* check_site from the if/elif chain on: report built, counter incremented,
\* create_reports; an exception in create_reports runs the except clause
ReportF(rfaults) ==
    /\ pc = "classify"
    /\ \E rf \in rfaults :
        LET class == ReportClass(check)
        IN  /\ report' = class
            /\ IF rf = "create_reports"
               THEN /\ ExceptClause(site, Counted(counts, class), site_emails)
                    /\ \E early \in BOOLEAN :
                          made' = IF early THEN NoFiles ELSE FilesOf(class)
                    /\ wrote' = ExceptWrites(WritesOf(check, class, fs[check.dir]))
               ELSE /\ counts' = Counted(counts, class)
                    /\ wrote' = WritesOf(check, class, fs[check.dir])
                    /\ site_emails' = QueuedBy(site_emails, class, Strip(site[3]))
                    /\ made' = FilesOf(class)
                    /\ pc' = "loop"
                    /\ idx' = idx + 1
                    /\ UNCHANGED caught
    /\ ReturnFromCheck
    /\ pre' = fs
    /\ UNCHANGED <<run, nsites, fs, sent, summary, admin_email, lastFetch>>
    /\ UNCHANGED <<mainVars, csvVars>>

Report == ReportF(ReportFaults)

\* --------------------------------------------------- check_all after the loop
\* faulty variant: the summary is written before the counters are read
SummaryOf_Stale(cnt) == ZeroCounts

\* summary = "Checks and reports complete. No change: {}. ..." of check_all
SummaryOf(cnt) == cnt

\* faulty variant: check_all does not call send_emails
SendCalls_None(n) == n

\* emails.send_emails(emails.site_emails) in check_all
SendCalls(n) == n + 1

\* the summary line, the send of the site emails, the summary for the
\* administrator; an exception before the send (print) is fatal
SummariseF(fatals) ==
    /\ pc = "loop"
    /\ ~LoopHasNext(idx, nsites)
    /\ \E fatal \in fatals :
        IF fatal
        THEN /\ ExceptMain
             /\ UNCHANGED <<summary, sent>>
        ELSE /\ summary' = SummaryOf(counts)
             /\ sent' = SendCalls(sent)
             /\ admin_email' = Append(admin_email, [kind |-> "summary", body |-> summary'])
             /\ pc' = "finally"
             /\ UNCHANGED main_log
    /\ UNCHANGED <<run, nsites, idx, site, fs, check, attempt, requests, sleeps, resp,
                   extraction, counts, report, caught, site_emails, lastFetch,
                   prevFetch, pre, made, emails_enabled, admin_sent, wrote>>
    /\ UNCHANGED csvVars

Summarise == SummariseF(BOOLEAN)

\* if config.EMAILS_ENABLED: emails.send_emails(emails.admin_email)
SendsAdmin(enabled) == enabled

\* the finally clause of main()
Finalize ==
    /\ pc = "finally"
    /\ \E enabled \in BOOLEAN :
        /\ emails_enabled' = IF enabled THEN "on" ELSE "off"
        /\ admin_sent' = IF SendsAdmin(enabled) THEN admin_sent + 1 ELSE admin_sent
    /\ main_log' = [main_log EXCEPT !.end_of_run = TRUE]
    /\ pc' = "done"
    /\ UNCHANGED <<run, nsites, idx, site, fs, check, attempt, requests, sleeps, resp,
                   extraction, counts, report, caught, site_emails, sent, summary,
                   admin_email, lastFetch, prevFetch, pre, made, wrote>>
    /\ UNCHANGED csvVars

\* the program is started again: a new process over the same data directory
NextRun ==
    /\ pc = "done"
    /\ run < MaxRuns
    /\ run' = run + 1
    /\ pc' = "main"
    /\ nsites' = 0
    /\ idx' = 0
    /\ counts' = ZeroCounts
    /\ report' = "none"
    /\ caught' = FALSE
    /\ site_emails' = <<>>
    /\ sent' = 0
    /\ summary' = NoSummary
    /\ admin_email' = <<>>
    /\ pre' = fs
    /\ made' = NoFiles
    /\ emails_enabled' = "unread"
    /\ admin_sent' = 0
    /\ main_log' = NoLog
    /\ wrote' = NoWrites
    /\ ReturnFromCheck
    /\ UNCHANGED csvVars
    /\ UNCHANGED <<fs, lastFetch>>

Next ==
    \/ StartRun
    \/ BeginSite
    \/ RunCheck
    \/ Attempt
    \/ UpdateRecords
    \/ Report
    \/ Summarise
    \/ Finalize
    \/ NextRun

Spec == Init /\ [][Next]_vars

\* the same program when no mkdir, file operation or report call ever raises
\* and the site list always loads
NextReliable ==
    \/ StartRunF({FALSE})
    \/ BeginSiteF({"none"})
    \/ RunCheck
    \/ Attempt
    \/ UpdateRecordsF({"none"})
    \/ ReportF({"none"})
    \/ SummariseF({FALSE})
    \/ Finalize
    \/ NextRun

SpecReliable == Init /\ [][NextReliable]_vars

\* one execution of main(), every step of which is taken in the end: the
\* program is sequential, each request returns or fails within its timeout
\* and each sleep is finite
NextOfRun ==
    \/ StartRun
    \/ BeginSite
    \/ RunCheck
    \/ Attempt
    \/ UpdateRecords
    \/ Report
    \/ Summarise
    \/ Finalize

SpecRunFair == Init /\ [][NextOfRun]_vars /\ WF_vars(NextOfRun)

\* ------------------------------- check_all called again on the same object
\* check_all has returned and is called a second time on the same RunChecks
\* object: self.sites and the counters are as the first call left them
CheckAllAgain ==
    /\ pc = "finally"
    /\ run = 1
    /\ run' = run + 1
    /\ pc' = "loop"
    /\ counts' = reset_counts(counts)
    /\ idx' = 0
    /\ summary' = NoSummary
    /\ report' = "none"
    /\ caught' = FALSE
    /\ pre' = fs
    /\ made' = NoFiles
    /\ wrote' = NoWrites
    /\ UNCHANGED <<nsites, site, fs, check, attempt, requests, sleeps, resp, extraction,
                   site_emails, sent, admin_email, lastFetch, prevFetch>>
    /\ UNCHANGED <<mainVars, csvVars>>

NextObject ==
    \/ StartRunF({FALSE})
    \/ BeginSiteF({"none"})
    \/ RunCheck
    \/ Attempt
    \/ UpdateRecordsF({"none"})
    \/ ReportF({"none"})
    \/ SummariseF({FALSE})
    \/ CheckAllAgain

SpecObject == Init /\ [][NextObject]_vars

\* ------------------------------------ update_records called on its own
\* contents a content file may hold when update_records is called (None: no file)
StoreContents == { None, <<>>, <<"a">>, <<LF>>, <<CR>> }

\* a RobotsCheck instance of a valid URL whose directories exist, over any
\* content files, and any text to record
InitStore ==
    /\ pc = "store0"
    /\ \E o \in StoreContents, n \in StoreContents :
          fs = [d \in Dirs |-> IF d = <<>> THEN DataDir
                               ELSE [dir |-> TRUE, program_files |-> TRUE, old |-> o, new |-> n]]
    /\ check = [NoCheck EXCEPT !.url = U_https_a, !.dir = DirOf(U_https_a)]
    /\ extraction \in Texts
    /\ pre = fs
    /\ csv_file = <<>>
    /\ NothingRun

\* self.update_records(new_extraction), the first call and the second
StoreUpdate ==
    /\ pc \in {"store0", "store1"}
    /\ LET r == update_records(fs[check.dir], check, extraction, "none") IN
        /\ fs' = [fs EXCEPT ![check.dir] = r.f]
        /\ check' = r.c
        /\ caught' = (caught \/ r.raised)
    /\ pc' = IF pc = "store0" THEN "store1" ELSE "store2"
    /\ UNCHANGED <<run, nsites, idx, site, attempt, requests, sleeps, resp, extraction,
                   counts, report, site_emails, sent, summary, admin_email, lastFetch,
                   prevFetch, pre, made, wrote>>
    /\ UNCHANGED <<mainVars, csvVars>>

SpecStore == InitStore /\ [][StoreUpdate]_vars

\* --------------------------------------------------------- sites_from_file
MaxCsvRows == 3

\* rows as csv.reader yields them: a blank line, one to four columns, an empty
\* email column
CsvRows ==
    { <<>>, <<"u">>, <<"u", "n">>, <<"u", "n", "">>, <<"v", "n", "e">>,
      <<"u", "n", "e", "x">> }

CsvFiles == UNION { [1..k -> CsvRows] : k \in 0..MaxCsvRows }

\* faulty variant: the header row is read as a site
PastHeader_FromFirst(row_num) == row_num >= 0

\* if row_num > 0: the header row is skipped
PastHeader(row_num) == row_num > 0

\* the for loop of sites_from_file from row number row_num (0-based) on
RECURSIVE ReadRows(_, _, _, _)
ReadRows(rows, row_num, acc, errs) ==
    IF rows = <<>> THEN [data |-> acc, errors |-> errs]
    ELSE LET row == Head(rows) IN
         IF ~PastHeader(row_num) THEN ReadRows(Tail(rows), row_num + 1, acc, errs)
         ELSE IF Len(row) >= 3
         THEN ReadRows(Tail(rows), row_num + 1, Append(acc, <<row[1], row[2], row[3]>>), errs)
         ELSE ReadRows(Tail(rows), row_num + 1, acc, Append(errs, row_num))

sites_from_file(rows) == ReadRows(rows, 0, <<>>, <<>>)

InitCsv ==
    /\ pc = "csv"
    /\ csv_file \in CsvFiles
    /\ fs = [d \in Dirs |-> IF d = <<>> THEN DataDir ELSE NoDir]
    /\ check = NoCheck
    /\ extraction = None
    /\ pre = fs
    /\ NothingRun

LoadSites ==
    /\ pc = "csv"
    /\ data' = sites_from_file(csv_file).data
    /\ row_errors' = sites_from_file(csv_file).errors
    /\ pc' = "csv_done"
    /\ UNCHANGED <<run, nsites, idx, site, fs, check, attempt, requests, sleeps, resp,
                   extraction, counts, report, caught, site_emails, sent, summary,
                   admin_email, lastFetch, prevFetch, pre, made, wrote, csv_file>>
    /\ UNCHANGED mainVars

SpecCsv == InitCsv /\ [][LoadSites]_vars

\* =================================================================== claims
StartsWithHttp(u) == Len(u) >= 4 /\ u[1] = "h" /\ u[2] = "t" /\ u[3] = "t" /\ u[4] = "p"
EndsWithSlash(u) == Len(u) >= 1 /\ u[Len(u)] = "/"
ValidByRule(u) == StartsWithHttp(u) /\ EndsWithSlash(u)

\* run_check has returned for the current site
Checked == pc = "classify"

FetchOk == resp.k = "resp" /\ resp.code = 200
FetchFailed == resp.k # "none" /\ ~FetchOk

OutcomeOf(c) ==
    IF c.err_message.kind # "none" THEN "Error"
    ELSE IF c.first_run THEN "FirstRun"
    ELSE IF c.file_change THEN "Changed"
    ELSE "NoChange"

Total(cnt) == cnt.no_change + cnt.change + cnt.first_run + cnt.error

\* C1: the first check of a site whose fetch succeeds yields FirstRun, leaves
\* new_file holding the fetched text and leaves old_content unassigned.
C1_FirstFetchIsFirstRun ==
    (Checked /\ FetchOk /\ prevFetch = None)
        => /\ OutcomeOf(check) = "FirstRun"
           /\ fs[check.dir].new = extraction
           /\ check.old_content = None

\* C2: when a site's fetch returns the same text as its previous successful
\* fetch, the check yields NoChange.
C2_SameTextIsNoChange ==
    (Checked /\ FetchOk /\ prevFetch = extraction) => OutcomeOf(check) = "NoChange"

\* C3: when a site's fetch returns a text different from its previous successful
\* fetch, the check yields Changed, old_content is the earlier text and
\* new_content the later one.
C3_DifferentTextIsChanged ==
    (Checked /\ FetchOk /\ prevFetch # None /\ prevFetch # extraction)
        => /\ OutcomeOf(check) = "Changed"
           /\ check.old_content = prevFetch
           /\ check.new_content = extraction

\* C4: a check whose fetch fails leaves the previous and latest artifacts of
\* every site directory as they were when the check began.
C4_FailedFetchKeepsArtifacts ==
    (Checked /\ FetchFailed)
        => \A d \in Dirs : fs[d].old = pre[d].old /\ fs[d].new = pre[d].new

C4_Witness ==
    /\ Checked
    /\ resp.k = "timeout"
    /\ pre[check.dir].new \notin {None, <<>>}
    /\ pre[check.dir].old # None

\* C5: a URL that does not start with "http" or does not end with "/" yields an
\* Error outcome; during its check no HTTP request is issued, no directory is
\* created and no content artifact is written.
C5_InvalidState ==
    (check.url # None /\ ~ValidByRule(check.url))
        => /\ pc \in {"run_check", "classify"}
           /\ check.err_message.kind = "invalid_url"
           /\ requests = 0
           /\ resp = NoResp
           /\ fs = pre

C5_InvalidStep ==
    /\ (pc = "classify" /\ ~ValidByRule(check.url))
          => (report' = "ErrorReport" /\ counts'.error > counts.error /\ fs' = fs)
    /\ (pc = "loop" /\ pc' = "loop" /\ idx' = idx + 1)
          => (caught' /\ counts'.error = counts.error + 1 /\ fs' = fs /\ requests' = 0)

C5_InvalidUrlIsError == []C5_InvalidState /\ [][C5_InvalidStep]_vars

C5_Witness == Checked /\ ~ValidByRule(check.url) /\ fs[<<"a">>].new # None

\* C6: while every attempt fails with a timeout or connection error,
\* download_robotstxt sleeps once per failed attempt and err_message stays unset;
\* it raises at the final attempt only, after exactly max_attempts requests and
\* max_attempts - 1 sleeps, and err_message is set then.
C6_RetriesExactly ==
    /\ pc = "download"
         => /\ check.err_message = NoErr
            /\ attempt < max_attempts
            /\ requests = attempt
            /\ sleeps = attempt
    /\ (Checked /\ resp.k \in {"timeout", "conn"})
         => /\ requests = max_attempts
            /\ sleeps = max_attempts - 1
            /\ check.err_message.kind = resp.k

C6_Witness == Checked /\ resp.k = "conn" /\ requests = max_attempts

\* C7: a response with a status other than 200, on any attempt, ends
\* download_robotstxt at once: no further request, no sleep after it, and the
\* check is reported as Error with a message naming the status code.
C7_StatusState ==
    (resp.k = "resp" /\ resp.code # 200)
        => /\ Checked
           /\ check.err_message = [kind |-> "status", code |-> resp.code]
           /\ requests = attempt + 1
           /\ sleeps = attempt

C7_StatusStep ==
    (pc = "classify" /\ resp.k = "resp" /\ resp.code # 200)
        => (report' = "ErrorReport" /\ counts'.error > counts.error)

C7_Non200IsTerminal == []C7_StatusState /\ [][C7_StatusStep]_vars

C7_Witness == Checked /\ resp.k = "resp" /\ resp.code = 404 /\ attempt = 2

\* C8: an exception raised while checking or reporting one site is caught in
\* check_site and counted as an Error of that site; the loop goes on with the
\* next site, and check_all leaves the loop only after the last site, with the
\* summary produced.
C8_ExceptStep ==
    (caught' /\ (pc = "classify" \/ (pc = "loop" /\ idx < nsites)))
        => /\ counts'.error > counts.error
           /\ Len(site_emails') = Len(site_emails) + 1
           /\ pc' = "loop"
           /\ idx' = idx + 1

C8_LoopState ==
    /\ (pc \in {"finally", "done"}
          /\ (admin_email = <<>> \/ admin_email[Len(admin_email)].kind # "fatal"))
          => (idx = nsites /\ summary = counts)
    /\ (pc = "loop" /\ caught) => idx <= nsites

C8_SiteErrorsAreIsolated == []C8_LoopState /\ [][C8_ExceptStep]_vars

C8_Witness ==
    /\ pc = "finally"
    /\ summary # NoSummary
    /\ nsites = 2
    /\ ~caught
    /\ site_emails # <<>>
    /\ site_emails[1].kind = "unexpected"

\* C9: each check_site call increments exactly one counter by one, so the four
\* counters add up to the number of sites processed, also when the report step
\* raises after the classification.
C9_OneCountPerSite ==
    /\ pc = "loop" => Total(counts) = idx
    /\ summary # NoSummary => Total(summary) = nsites

InCheck == pc \in {"run_check", "download", "update", "classify"}

ArtifactsKept == \A d \in Dirs : fs[d].old = pre[d].old /\ fs[d].new = pre[d].new

\* the outcome of a check_site call, an exception caught by it counting as Error
FinalOutcome(c, exc) == IF exc THEN "Error" ELSE OutcomeOf(c)

\* C11: after a check that ends in FirstRun, NoChange or Changed the latest
\* artifact holds the text fetched in that check; after NoChange or Changed the
\* previous artifact holds what the latest artifact held before the check.
C11_ArtifactsFollowFetches ==
    (Checked /\ OutcomeOf(check) # "Error")
        => /\ fs[check.dir].new = extraction
           /\ (~check.first_run) => fs[check.dir].old = pre[check.dir].new

\* C12: each site processed appends exactly one site email when its outcome is
\* FirstRun, Changed or Error and none when it is NoChange; nothing else
\* appends to the queue.
C12_Step ==
    /\ (idx' = idx + 1)
          => LET out == FinalOutcome(check, caught')
                 n == Len(site_emails)
             IN  IF out = "NoChange"
                 THEN site_emails' = site_emails
                 ELSE /\ Len(site_emails') = n + 1
                      /\ SubSeq(site_emails', 1, n) = site_emails
                      /\ site_emails'[n + 1].kind =
                            IF caught' THEN "unexpected"
                            ELSE IF out = "FirstRun" THEN "first_run"
                            ELSE IF out = "Changed" THEN "change"
                            ELSE "error"
    /\ (idx' = idx /\ run' = run) => site_emails' = site_emails

C12_OneNotificationPerOutcome == [][C12_Step]_vars

C12_Witness ==
    /\ pc = "loop"
    /\ idx = 2
    /\ report = "NoChangeReport"
    /\ ~caught
    /\ Len(site_emails) = 1

\* C13: a check's report creates a snapshot file exactly when the outcome is
\* FirstRun or Changed and a diff file exactly when it is Changed; the email of
\* a Changed outcome attaches old_file, new_file and the diff file.
C13_Step ==
    /\ (pc = "classify")
          => /\ made'.snapshot <=> OutcomeOf(check) \in {"FirstRun", "Changed"}
             /\ made'.diff <=> OutcomeOf(check) = "Changed"
             /\ OutcomeOf(check) = "Changed"
                   => /\ Len(site_emails') = Len(site_emails) + 1
                      /\ site_emails'[Len(site_emails')].attach
                            = <<"old_file", "new_file", "diff_file">>
    /\ (pc # "classify") => (made' = made \/ made' = [snapshot |-> FALSE, diff |-> FALSE])

C14_SentOnceAfterLoop ==
    /\ sent \in {0, 1}
    /\ (pc = "main" \/ pc = "loop" \/ InCheck) => sent = 0
    /\ (sent = 1) => (idx = nsites /\ check.url = None /\ summary # NoSummary)
    /\ (pc \in {"finally", "done"} /\ ~main_log.fatal) => sent = 1

C14_Witness ==
    /\ pc = "done"
    /\ sent = 1
    /\ nsites = 2
    /\ Len(site_emails) = 2

\* C15: when a run has ended with emails enabled, the administrator's queue has
\* been sent and so has every queued site email, also when check_all raised
\* before its own send_emails call.
C15_FinalizationFlushesBoth ==
    (pc = "done" /\ emails_enabled = "on")
        => /\ admin_sent = 1
           /\ (sent >= 1 \/ site_emails = <<>>)

\* C16: an exception outside the per-site loop is logged, queues the fatal-error
\* email for the administrator and ends the run: no site is checked afterwards;
\* the administrator's queue is sent when emails are enabled and the END OF RUN
\* line is written.
C16_FatalState ==
    /\ main_log.fatal
          => /\ pc \in {"finally", "done"}
             /\ admin_email # <<>>
             /\ admin_email[Len(admin_email)].kind = "fatal"
             /\ summary = NoSummary
             /\ check.url = None
    /\ (pc = "done")
          => /\ main_log.end_of_run
             /\ admin_sent = (IF emails_enabled = "on" THEN 1 ELSE 0)
    /\ (pc # "done") => (~main_log.end_of_run /\ admin_sent = 0)

C16_FatalStep ==
    /\ (pc \in {"main", "loop"} /\ pc' = "finally" /\ summary' = NoSummary)
          => (main_log'.fatal /\ Len(admin_email') = Len(admin_email) + 1)
    /\ (pc \in {"finally", "done"} /\ run' = run)
          => (idx' = idx /\ fs' = fs /\ requests' = 0 /\ pc' = "done")

C16_FatalErrorEndsRun == []C16_FatalState /\ [][C16_FatalStep]_vars

C16_Witness ==
    /\ pc = "done"
    /\ main_log.fatal
    /\ emails_enabled = "on"
    /\ admin_sent = 1
    /\ idx = 0

\* C17: a valid URL whose site directory is absent has the directory created
\* before any request is made; when the creation fails the check ends in Error
\* with no request issued and no content artifact written.
C17_DirState ==
    /\ (pc \in {"download", "update"}) => (fs[check.dir].dir /\ check.err_message.kind = "none")
    /\ (check.err_message.kind = "directory")
          => /\ pc \in {"run_check", "classify"}
             /\ requests = 0
             /\ resp = [k |-> "none", code |-> 0, text |-> <<>>]
             /\ ArtifactsKept

C17_DirStep ==
    /\ (pc = "loop" /\ pc' = "run_check" /\ ValidByRule(check'.url) /\ ~fs[check'.dir].dir)
          => (IF fs'[check'.dir].dir /\ fs'[check'.dir].program_files
              THEN check'.err_message.kind = "none"
              ELSE check'.err_message.kind = "directory")
    /\ (pc = "classify" /\ check.err_message.kind = "directory")
          => (report' = "ErrorReport" /\ counts'.error > counts.error)

C17_DirectoryBeforeFetch == []C17_DirState /\ [][C17_DirStep]_vars

C17_Witness ==
    /\ Checked
    /\ check.err_message.kind = "directory"
    /\ ~fs[check.dir].dir
    /\ ValidByRule(check.url)

\* C18: no exception leaves run_check: after an exception in download_robotstxt,
\* update_records or check_diff err_message is set, to the fetcher's message when
\* it set one and to the 'Unexpected error' message otherwise, and the outcome
\* is Error.
C18_State ==
    Checked
        => /\ ~caught
           /\ (resp.k \in {"timeout", "conn"}) => check.err_message.kind = resp.k
           /\ (resp.k = "resp" /\ resp.code # 200)
                 => check.err_message = [kind |-> "status", code |-> resp.code]
           /\ (resp.k = "exc") => check.err_message.kind = "unexpected"
           /\ (FetchOk /\ check.new_content = None) => check.err_message.kind = "unexpected"
           /\ (FetchFailed \/ (FetchOk /\ check.new_content = None))
                 => OutcomeOf(check) = "Error"

C18_Step ==
    (pc = "classify" /\ (FetchFailed \/ (FetchOk /\ check.new_content = None)))
        => (report' = "ErrorReport" /\ counts'.error > counts.error)

C18_RunCheckCatchesAll == []C18_State /\ [][C18_Step]_vars

C18_Witness ==
    /\ Checked
    /\ FetchOk
    /\ check.new_content = None
    /\ check.err_message.kind = "unexpected"
    /\ fs[check.dir].program_files

\* C19: a check of one site leaves the previous and latest artifacts of every
\* site with a different URL as they were: distinct URLs have distinct
\* directories.
C19_OtherSitesUntouched ==
    (Checked /\ ValidByRule(check.url))
        => \A v \in Urls :
              (ValidByRule(v) /\ v # check.url)
                  => /\ fs[DirOf(v)].old = pre[DirOf(v)].old
                     /\ fs[DirOf(v)].new = pre[DirOf(v)].new

\* C20: the sites are processed one at a time in list order: a check starts only
\* when the check and the report of the site before it are finished, the
\* position advances by one per site, and the loop ends when every site of the
\* list has been processed once.
C20_SeqState ==
    /\ idx <= nsites
    /\ (pc = "loop") => (check.url = None /\ site = <<None, None, None>>)
    /\ InCheck => (idx < nsites /\ site # <<None, None, None>> /\ check.url # None)
    /\ (summary # NoSummary) => idx = nsites

C20_SeqStep ==
    /\ (run' = run) => (idx' = idx \/ idx' = idx + 1)
    /\ (idx' = idx + 1)
          => /\ pc' = "loop"
             /\ check'.url = None
             /\ (pc = "classify" /\ report' # "none") \/ (pc = "loop" /\ caught')
    /\ (pc = "loop" /\ pc' = "run_check") => idx' = idx
    /\ (InCheck /\ pc' = "loop") => idx' = idx + 1

C20_SequentialInOrder == []C20_SeqState /\ [][C20_SeqStep]_vars

C20_Witness ==
    /\ pc = "run_check"
    /\ idx = 1
    /\ nsites = 2
    /\ report = "none"
    /\ Total(counts) >= 1

\* C21: the summary email for the administrator is queued once per completed
\* check_all, after the sites are processed and the summary line is written; the
\* counts it carries are the counters' final values of that run.
C21_SummaryQueuedOnce ==
    /\ (pc \notin {"finally", "done"}) => admin_email = <<>>
    /\ (pc \in {"finally", "done"}) => Len(admin_email) = 1
    /\ (pc \in {"finally", "done"} /\ ~main_log.fatal)
          => /\ admin_email[1].kind = "summary"
             /\ admin_email[1].body = counts
             /\ summary = counts
             /\ idx = nsites
             /\ check.url = None

C21_Witness ==
    /\ pc = "done"
    /\ admin_email # <<>>
    /\ admin_email[1].kind = "summary"
    /\ admin_email[1].body.change = 1
    /\ admin_email[1].body.error = 1

\* a check_site call has returned and the next has not begun
SiteDone == pc = "loop" /\ idx >= 1

\* lines the latest check_site call added to the main log
MainLines(w) ==
    (IF w.main_line # "none" THEN 1 ELSE 0)
        + (IF w.error_line.kind # "none" THEN 1 ELSE 0)

ReportedError == SiteDone /\ ~caught /\ report = "ErrorReport"

\* the main log has its start line and no summary line while sites are processed
C22_Order ==
    /\ (pc = "loop" \/ InCheck) => (main_log.start /\ summary = NoSummary /\ ~main_log.end_of_run)
    /\ (wrote # NoWrites) => main_log.start
    /\ (summary # NoSummary) => pc \in {"finally", "done"}

C23_ErrorSiteLog ==
    ReportedError
        => /\ wrote.main_line = "error"
           /\ wrote.mail_msg.kind # "none"
           /\ site_emails # <<>>
           /\ site_emails[Len(site_emails)].kind = "error"
           /\ (wrote.site_log # None)
                 => (fs[wrote.site_log].dir /\ wrote.line_msg.kind # "invalid_url")

\* C24: every Error outcome, of RobotsCheck or of the except clause of
\* check_site, has its error message in a log line and, the same message, in the
\* body of the email queued for the site.
C24_State ==
    /\ ReportedError
          => /\ wrote.main_line = "error"
             /\ wrote.line_msg.kind # "none"
             /\ wrote.mail_msg = wrote.line_msg
             /\ site_emails[Len(site_emails)].kind = "error"
    /\ (SiteDone /\ caught)
          => /\ wrote.error_line.kind # "none"
             /\ wrote.mail_msg = wrote.error_line
             /\ site_emails[Len(site_emails)].kind = "unexpected"

C24_Step ==
    (pc = "classify" /\ OutcomeOf(check) = "Error" /\ ~caught')
        => wrote'.line_msg = check.err_message

C24_SameMessageLoggedAndMailed == []C24_State /\ [][C24_Step]_vars

C24_Witness ==
    /\ ReportedError
    /\ wrote.mail_msg.kind = "status"
    /\ wrote.line_msg.code = 404

C26_SecondUpdateConverges ==
    (pc = "store2") => check.old_content = check.new_content

C26_Witness ==
    /\ pc = "store2"
    /\ ~check.first_run
    /\ ~caught
    /\ extraction = <<"CR">>
    /\ check.old_content = <<"LF">>
    /\ fs[check.dir].old = <<"LF">>

\* the rows after the header that have three columns or more, cut to three
RECURSIVE KeptRows(_)
KeptRows(rows) ==
    IF rows = <<>> THEN <<>>
    ELSE IF Len(Head(rows)) >= 3
         THEN <<SubSeq(Head(rows), 1, 3)>> \o KeptRows(Tail(rows))
         ELSE KeptRows(Tail(rows))

\* C27: sites_from_file skips the header row and returns [url, name, email] for
\* every later row of three columns or more, in file order, an empty email kept
\* as the empty string; a shorter row is logged and left out, the load goes on.
C27_SitesFromFile ==
    (pc = "csv_done")
        => /\ data = (IF csv_file = <<>> THEN <<>> ELSE KeptRows(Tail(csv_file)))
           /\ \A i \in 2..Len(csv_file) :
                 (Len(csv_file[i]) < 3) <=> (\E j \in 1..Len(row_errors) : row_errors[j] = i - 1)
           /\ Len(data) + Len(row_errors) = (IF csv_file = <<>> THEN 0 ELSE Len(csv_file) - 1)

C27_Witness ==
    /\ pc = "csv_done"
    /\ Len(csv_file) = 3
    /\ Len(csv_file[2]) = 2
    /\ data = << <<"u", "n", "">> >>
    /\ row_errors = <<1>>

\* download_robotstxt is in its loop, attempt counting the failed attempts so far
C29_InLoop ==
    (pc = "download")
        => /\ attempt < max_attempts
           /\ requests = attempt
           /\ sleeps = attempt

\* download_robotstxt has returned from attempt number attempt + 1
C29_Returned ==
    (pc = "update")
        => /\ resp.k = "resp" /\ resp.code = 200
           /\ attempt + 1 \in 1..max_attempts
           /\ requests = attempt + 1
           /\ sleeps = attempt
           /\ extraction = resp.text
           /\ check.err_message = NoErr

\* once it has returned, no further request is made in this check
C29_NoLaterAttempt ==
    (pc = "update") => (pc' # "download" /\ requests' <= requests)

\* C29: when attempt k of download_robotstxt is the first to get a response and
\* the response has status 200, exactly k requests and k - 1 sleeps have
\* occurred, the body is returned, no later attempt is made and err_message
\* stays unset; earlier timeouts and connection errors use the same budget of
\* max_attempts.
C29_FirstResponseOk ==
    /\ [](C29_InLoop /\ C29_Returned)
    /\ [][C29_NoLaterAttempt]_vars

C29_Witness ==
    /\ pc = "update"
    /\ attempt = max_attempts - 1
    /\ requests = max_attempts
    /\ sleeps = max_attempts - 1
    /\ extraction = <<"a">>

\* C30: both operands of the comparison are read from disk: old_content is
\* what the latest artifact held before the check overwrote it, new_content is
\* what the latest artifact holds after the write, and the old_content of a
\* successful check is the new_content of the last successful check of the
\* same site (the text that check fetched, as read back).
C30_OperandsFromDisk ==
    (Checked /\ FetchOk /\ OutcomeOf(check) # "Error")
        => /\ check.new_content = ReadText(fs[check.dir].new)
           /\ (~check.first_run) => check.old_content = ReadText(pre[check.dir].new)
           /\ (prevFetch # None) => check.old_content = ReadText(prevFetch)

\* C28 as stated: every run reaches its end with every site processed, the
\* summary produced and the END OF RUN line written.
C28_RunCompletes ==
    (pc = "main")
        ~> (pc = "done" /\ main_log.end_of_run /\ idx = nsites /\ summary # NoSummary)

\* C28: for any finite site list, every request returning or failing within
\* its timeout, a run always reaches its end and writes the END OF RUN line;
\* unless a fatal error was raised outside the per-site processing, every site
\* has got an outcome and the summary has been produced by then.
C28_RunEnds ==
    (pc = "main")
        ~> /\ pc = "done"
           /\ main_log.end_of_run
           /\ (main_log.fatal \/ (idx = nsites /\ summary # NoSummary))

C28_Witness ==
    /\ pc = "done"
    /\ main_log.end_of_run
    /\ ~main_log.fatal
    /\ nsites >= 2
    /\ idx = nsites
    /\ summary # NoSummary
    /\ counts.error >= 1
    /\ counts.change >= 1

\* a completed check has file_change only with first_run false and no error
C31_State ==
    Checked => ~(check.file_change /\ (check.first_run \/ check.err_message.kind # "none"))

\* the report class check_site builds for a completed check
C31_Step ==
    (pc = "classify")
        => report' = (IF check.err_message.kind # "none" THEN "ErrorReport"
                      ELSE IF check.first_run THEN "FirstRunReport"
                      ELSE IF check.file_change THEN "ChangeReport"
                      ELSE "NoChangeReport")

\* C31: check_site classifies by the fixed priority Error > FirstRun > Changed >
\* NoChange: a check with err_message set is reported as Error even when
\* first_run is true as well, and a completed check never has file_change
\* together with first_run or with err_message.
C31_PriorityOfClasses == []C31_State /\ [][C31_Step]_vars

C31_Witness ==
    /\ Checked
    /\ check.first_run
    /\ check.err_message.kind = "unexpected"
    /\ fs[check.dir].new # None

\* C32: a check that ends in Error, whatever the reason, leaves the previous
\* and the latest artifact of the site as they were before the check.
C32_ErrorKeepsArtifacts ==
    (Checked /\ check.err_message.kind # "none")
        => /\ fs[check.dir].old = pre[check.dir].old
           /\ fs[check.dir].new = pre[check.dir].new

\* C33: at the end of every check of a valid URL, a site directory that exists
\* has its program_files subdirectory.
C33_ProgramFilesWithDir ==
    (Checked /\ ValidByRule(check.url))
        => (fs[check.dir].dir => fs[check.dir].program_files)

\* C34: check_all sets the four counters to zero before the first site, so the
\* counters of a run hold the increments of this run's sites only, also when
\* check_all ran before on the same RunChecks object.
C34_CountsOfThisRun ==
    /\ (pc = "loop" /\ idx = 0) => counts = ZeroCounts
    /\ (pc \in {"loop", "run_check", "download", "update", "classify", "finally"})
          => Total(counts) = idx
    /\ (summary # NoSummary) => Total(summary) = nsites

C34_Witness ==
    /\ run = 2
    /\ pc = "finally"
    /\ nsites = 2
    /\ summary # NoSummary
    /\ counts.no_change = 2

====
